---------------------------- MODULE Spec2Model ----------------------------
(***************************************************************************)
(* State-machine model of src/pdf_merge.py (class PDFMergerGUI): the file  *)
(* list and its listbox, the output entry, the Merge button, the worker    *)
(* threads running merge_pdfs, the callbacks they hand to root.after, and  *)
(* the files they read and write.                                          *)
(*                                                                         *)
(* A path is a sequence of components (<<"d1", "a.pdf">> is d1/a.pdf), so  *)
(* that os.path.basename and os.path.dirname are computed, not looked up.  *)
(* A text of the output entry is a path or a sequence of blank components. *)
(***************************************************************************)
EXTENDS Integers, Sequences, FiniteSets, TLC

\* ------------------------------------------------------------ bounds
\* Threads start_merge may start in one run of the application.
MaxMerges == 2
\* User-interface events (dialogs, drops, clicks, edits) in one run.
MaxUIEvents == 3
\* Threads started in one run where the runs are followed to their end.
LiveMerges == 1

Workers == 1..MaxMerges

\* ------------------------------------------------------------ the files
A == <<"d1", "a.pdf">>
B == <<"d2", "a.pdf">>
X == <<"d1", "X.PDF">>
N == <<"d1", "n.txt">>

\* What the file dialog offers (the "PDF files" filter) and what can be dropped.
Files == {A, B, X}
Droppable == Files \cup {N}

OutMk == <<"new", "out.pdf">>
OutRo == <<"ro", "out.pdf">>
OutRoMk == <<"ro", "sub", "out.pdf">>
Blank == <<" ">>
Empty == <<>>

\* Texts the output entry can hold: typed, or chosen in the save dialog. A is
\* also a source; the directory of OutMk does not exist yet; ro is read-only.
OutputTexts == {Empty, Blank, A, OutMk, OutRo, OutRoMk}

AllPaths == Files \cup {N, OutMk, OutRo, OutRoMk, Blank}

\* Directories the process may not write into.
ReadOnlyDirs == {<<"ro">>}

Absent == [st |-> "absent", pages |-> <<>>]
Corrupt == [st |-> "corrupt", pages |-> <<>>]
Pdf(ps) == [st |-> "pdf", pages |-> ps]

\* ------------------------------------------------------------ helpers
basename(p) == IF Len(p) = 0 THEN "" ELSE p[Len(p)]

dirname(p) == IF Len(p) = 0 THEN <<>> ELSE SubSeq(p, 1, Len(p) - 1)

\* str.lower on the extensions that occur.
lower(s) == CASE s = "X.PDF" -> "x.pdf" [] OTHER -> s

\* f.lower().endswith('.pdf')
endswith_pdf(p) == lower(basename(p)) \in {"a.pdf", "x.pdf", "out.pdf"}

RECURSIVE lstrip(_)
lstrip(t) == IF Len(t) > 0 /\ Head(t) = " " THEN lstrip(Tail(t)) ELSE t

RECURSIVE rstrip(_)
rstrip(t) ==
    IF Len(t) > 0 /\ t[Len(t)] = " " THEN rstrip(SubSeq(t, 1, Len(t) - 1)) ELSE t

\* str.strip
strip(t) == rstrip(lstrip(t))

Range(s) == {s[i] : i \in 1..Len(s)}

RECURSIVE GCD(_, _)
GCD(a, b) == IF b = 0 THEN a ELSE GCD(b, a % b)

\* (processed_pages / total_pages) * 100, as a reduced fraction.
Percent(processed, total) ==
    LET n == processed * 100
        g == GCD(n, total)
    IN  [num |-> n \div g, den |-> total \div g]

Whole(n) == [num |-> n, den |-> 1]

VARIABLES
    pdf_files,        \* self.pdf_files
    file_listbox,     \* the entries of self.file_listbox
    output_path_var,  \* self.output_path_var
    merge_btn,        \* state of self.merge_btn
    progress_var,     \* self.progress_var
    status_var,       \* self.status_var
    dnd_enabled,      \* self.dnd_enabled (tkinterdnd2 is installed)
    after_queue,      \* callbacks registered with root.after(0, ...), oldest first
    dialogs,          \* message boxes shown so far
    callback_errors,  \* exceptions raised inside Tk callbacks (reported on stderr)
    fs,               \* content of every file
    dirs,             \* directories that exist
    thread,           \* the locals of each merge_pdfs thread
    hist,             \* what each merge was started with and what it did
    ui_events         \* user-interface events handled so far

vars == <<pdf_files, file_listbox, output_path_var, merge_btn, progress_var,
          status_var, dnd_enabled, after_queue, dialogs, callback_errors,
          fs, dirs, thread, hist, ui_events>>

ui_vars == <<pdf_files, file_listbox, output_path_var, merge_btn>>

NoThread ==
    [pc |-> "idle", output_path |-> Empty, total_pages |-> 0,
     processed_pages |-> 0, it |-> 0, file_path |-> Empty,
     pdf_writer |-> <<>>, e |-> "unbound", outcome |-> "none"]

\* Of each merge: the file list and output text start_merge saw, the sources
\* each pass has read, the pages read in the merging pass, the step that
\* raised, and what it did to the destination.
NoHist ==
    [req_files |-> <<>>, req_output |-> Empty, count_read |-> <<>>,
     merge_read |-> <<>>, merge_pages |-> <<>>, failed |-> "none",
     opened |-> FALSE, dest_before |-> Absent, written |-> FALSE]

Init ==
    /\ pdf_files = <<>>
    /\ file_listbox = <<>>
    /\ output_path_var = Empty
    /\ merge_btn = "normal"
    /\ progress_var = Whole(0)
    /\ status_var = "Ready to merge PDFs"
    /\ dnd_enabled = TRUE
    /\ after_queue = <<>>
    /\ dialogs = {}
    /\ callback_errors = {}
    /\ fs = [p \in AllPaths |->
                CASE p = A -> Pdf(<<"A1", "A2">>)
                  [] p = B -> Pdf(<<"B1">>)
                  [] p = X -> Corrupt
                  [] p = N -> Corrupt
                  [] OTHER -> Absent]
    /\ dirs = {<<>>, <<"d1">>, <<"d2">>, <<"ro">>}
    /\ thread = [w \in Workers |-> NoThread]
    /\ hist = [w \in Workers |-> NoHist]
    /\ ui_events = 0

\* ------------------------------------------------------------ main thread

\* update_merge_button_state: the state the button is configured to.
update_merge_button_state(files, text) ==
    LET has_files == Len(files) >= 2
        has_output == strip(text) # Empty
    IN  IF has_files /\ has_output THEN "normal" ELSE "disabled"

\* The loop of add_files_from_list without its test `not in self.pdf_files`.
RECURSIVE AppendNew_no_check(_, _)
AppendNew_no_check(lists, files) ==
    IF files = <<>> THEN lists
    ELSE AppendNew_no_check(<<Append(lists[1], Head(files)),
                              Append(lists[2], basename(Head(files)))>>,
                            Tail(files))

\* The loop of add_files_from_list over `files`, on the pair (pdf_files, listbox).
RECURSIVE AppendNew(_, _)
AppendNew(lists, files) ==
    IF files = <<>> THEN lists
    ELSE LET file_path == Head(files)
             next == IF file_path \in Range(lists[1]) THEN lists
                     ELSE <<Append(lists[1], file_path),
                            Append(lists[2], basename(file_path))>>
         IN  AppendNew(next, Tail(files))

add_files_from_list(files) ==
    LET lists == AppendNew(<<pdf_files, file_listbox>>, files)
    IN  /\ pdf_files' = lists[1]
        /\ file_listbox' = lists[2]
        /\ merge_btn' = update_merge_button_state(lists[1], output_path_var)
        /\ UNCHANGED output_path_var

\* del list[index] and Listbox.delete(index), index counted from 0.
DeleteAt(s, index) == SubSeq(s, 1, index) \o SubSeq(s, index + 2, Len(s))

SeqsUpTo2(S) == {<<>>} \cup {<<x>> : x \in S} \cup {<<x, y>> : x \in S, y \in S}

\* A message box: its kind and text, the file name and the exception text it
\* quotes, the path it quotes, and the merge that showed it (0: the main thread).
Box(box, text, file, detail, path, w) ==
    [box |-> box, text |-> text, file |-> file, detail |-> detail,
     path |-> path, w |-> w]

Background ==
    UNCHANGED <<dnd_enabled, after_queue, fs, dirs, thread, hist,
                progress_var, status_var, callback_errors>>

\* add_files: the dialog returns a tuple of paths, empty when cancelled.
add_files ==
    \E files \in SeqsUpTo2(Files) :
        /\ IF files # <<>> THEN add_files_from_list(files) ELSE UNCHANGED ui_vars
        /\ UNCHANGED dialogs
        /\ Background

\* drop: the <<Drop>> handler bound by setup_drag_drop.
drop ==
    \E files \in SeqsUpTo2(Droppable) :
        LET pdf_only == SelectSeq(files, endswith_pdf)
        IN  /\ dnd_enabled
            /\ IF pdf_only # <<>>
               THEN add_files_from_list(pdf_only) /\ UNCHANGED dialogs
               ELSE /\ dialogs' = dialogs \cup
                          {Box("showwarning", "Please drop PDF files only.",
                               "", "", Empty, 0)}
                    /\ UNCHANGED ui_vars
            /\ Background

\* remove_file: curselection() is empty or holds one index (selectmode SINGLE).
remove_file ==
    \E selection \in {<<>>} \cup {<<i>> : i \in 0..(Len(file_listbox) - 1)} :
        /\ IF selection # <<>>
           THEN LET index == selection[1]
                IN  /\ file_listbox' = DeleteAt(file_listbox, index)
                    /\ pdf_files' = DeleteAt(pdf_files, index)
                    /\ merge_btn' = update_merge_button_state(
                                        DeleteAt(pdf_files, index), output_path_var)
                    /\ UNCHANGED output_path_var
           ELSE UNCHANGED ui_vars
        /\ UNCHANGED dialogs
        /\ Background

clear_all ==
    /\ file_listbox' = <<>>
    /\ pdf_files' = <<>>
    /\ merge_btn' = update_merge_button_state(<<>>, output_path_var)
    /\ UNCHANGED <<output_path_var, dialogs>>
    /\ Background

\* browse_output: the save dialog returns a path, or "" when cancelled.
browse_output ==
    \E file_path \in OutputTexts \ {Blank} :
        /\ output_path_var' = IF file_path # Empty THEN file_path ELSE output_path_var
        /\ UNCHANGED <<pdf_files, file_listbox, merge_btn, dialogs>>
        /\ Background

\* The operator edits the output entry, which is bound to output_path_var.
output_entry ==
    \E text \in OutputTexts :
        /\ output_path_var' = text
        /\ UNCHANGED <<pdf_files, file_listbox, merge_btn, dialogs>>
        /\ Background

Idle == {w \in Workers : thread[w].pc = "idle"}

\* start_merge: the command of merge_btn, which a disabled button does not invoke.
start_merge ==
    /\ merge_btn = "normal"
    /\ IF Len(pdf_files) < 2
       THEN /\ dialogs' = dialogs \cup
                  {Box("showerror", "Please select at least 2 PDF files to merge.",
                       "", "", Empty, 0)}
            /\ UNCHANGED <<merge_btn, progress_var, status_var, thread, hist>>
       ELSE IF strip(output_path_var) = Empty
       THEN /\ dialogs' = dialogs \cup
                  {Box("showerror", "Please specify an output file path.",
                       "", "", Empty, 0)}
            /\ UNCHANGED <<merge_btn, progress_var, status_var, thread, hist>>
       ELSE /\ Idle # {}
            /\ LET w == CHOOSE v \in Idle : \A u \in Idle : v <= u
               IN  /\ thread' = [thread EXCEPT ![w].pc = "begin"]
                   /\ hist' = [hist EXCEPT ![w].req_files = pdf_files,
                                           ![w].req_output = output_path_var]
            /\ merge_btn' = "disabled"
            /\ progress_var' = Whole(0)
            /\ status_var' = "Merging PDFs..."
            /\ UNCHANGED dialogs
    /\ UNCHANGED <<pdf_files, file_listbox, output_path_var, dnd_enabled,
                   after_queue, callback_errors, fs, dirs, ui_events>>

\* ------------------------------------------------------------ merge_pdfs

\* A callback handed to root.after(0, ...): which lambda, of which thread, and
\* the values bound when it was made (p=progress, f=basename).
Cb(name, w, p, s) == [cb |-> name, w |-> w, p |-> p, s |-> s]

NoP == Whole(0)

Others ==
    UNCHANGED <<pdf_files, file_listbox, output_path_var, merge_btn,
                progress_var, status_var, dnd_enabled, dialogs,
                callback_errors, ui_events>>

\* An exception reaches an except clause of merge_pdfs: the clause binds it to
\* e and hands the lambda that shows it to root.after. t and h are the
\* thread's locals and record at the raise.
Raise(w, t, h, exc, lambda) ==
    /\ thread' = [thread EXCEPT ![w] = [t EXCEPT !.e = exc, !.outcome = "error",
                                                 !.pc = "except"]]
    /\ hist' = [hist EXCEPT ![w] = [h EXCEPT !.failed = t.pc]]
    /\ after_queue' = Append(after_queue, Cb(lambda, w, NoP, ""))

Ancestors(d) == {SubSeq(d, 1, k) : k \in 0..Len(d)}

DeepestExisting(d) ==
    CHOOSE a \in Ancestors(d) \cap dirs :
        \A b \in Ancestors(d) \cap dirs : Len(b) <= Len(a)

\* str(e) of the exception PdfReader raises on a file it cannot read.
ReadError(content) ==
    IF content.st = "absent" THEN "FileNotFoundError" ELSE "PdfReadError"

\* Lines 286-293 with the return left out: the loop goes on after a failure.
W_count_no_return(w) ==
    LET t == thread[w] IN
    /\ t.pc = "count"
    /\ IF t.it < Len(pdf_files)
       THEN LET file_path == pdf_files[t.it + 1]
                reader == fs[file_path]
                t1 == [t EXCEPT !.it = t.it + 1, !.file_path = file_path]
                h1 == [hist[w] EXCEPT !.count_read = Append(@, file_path)]
            IN  IF reader.st = "pdf"
                THEN /\ thread' = [thread EXCEPT ![w] =
                            [t1 EXCEPT !.total_pages = t.total_pages + Len(reader.pages)]]
                     /\ hist' = [hist EXCEPT ![w] = h1]
                     /\ UNCHANGED after_queue
                ELSE /\ thread' = [thread EXCEPT ![w] =
                            [t1 EXCEPT !.e = ReadError(reader), !.outcome = "error"]]
                     /\ hist' = [hist EXCEPT ![w] =
                            [h1 EXCEPT !.failed = "count"]]
                     /\ after_queue' = Append(after_queue,
                                              Cb("showerror_read", w, NoP, ""))
       ELSE /\ thread' = [thread EXCEPT ![w] =
                   [t EXCEPT !.pc = "merge", !.it = 0, !.processed_pages = 0]]
            /\ UNCHANGED <<hist, after_queue>>
    /\ UNCHANGED <<fs, dirs>>
    /\ Others

\* Lines 286-296: one turn of the page-counting loop over self.pdf_files.
W_count(w) ==
    LET t == thread[w] IN
    /\ t.pc = "count"
    /\ IF t.it < Len(pdf_files)
       THEN LET file_path == pdf_files[t.it + 1]
                reader == fs[file_path]
                t1 == [t EXCEPT !.it = t.it + 1, !.file_path = file_path]
                h1 == [hist[w] EXCEPT !.count_read = Append(@, file_path)]
            IN  IF reader.st = "pdf"
                THEN /\ thread' = [thread EXCEPT ![w] =
                            [t1 EXCEPT !.total_pages = t.total_pages + Len(reader.pages)]]
                     /\ hist' = [hist EXCEPT ![w] = h1]
                     /\ UNCHANGED after_queue
                ELSE Raise(w, t1, h1, ReadError(reader), "showerror_read")
       ELSE /\ thread' = [thread EXCEPT ![w] =
                   [t EXCEPT !.pc = "merge", !.it = 0, !.processed_pages = 0]]
            /\ UNCHANGED <<hist, after_queue>>
    /\ UNCHANGED <<fs, dirs>>
    /\ Others

\* Lines 302-310 for a whole file: the callbacks of its pages, in order.
PageCallbacks(w, n, processed, total, f) ==
    [i \in 1..(2 * n) |->
        IF i % 2 = 1
        THEN Cb("progress", w, Percent(processed + (i + 1) \div 2, total), "")
        ELSE Cb("status", w, NoP, f)]

\* Lines 297-318: one turn of the merging loop over self.pdf_files.
W_merge(w) ==
    LET t == thread[w] IN
    /\ t.pc = "merge"
    /\ IF t.it < Len(pdf_files)
       THEN LET file_path == pdf_files[t.it + 1]
                reader == fs[file_path]
                t1 == [t EXCEPT !.it = t.it + 1, !.file_path = file_path]
                h1 == [hist[w] EXCEPT !.merge_read = Append(@, file_path),
                                      !.merge_pages = Append(@, reader.pages)]
                n == Len(reader.pages)
            IN  IF reader.st # "pdf"
                THEN Raise(w, t1, h1, ReadError(reader), "showerror_process")
                ELSE IF n > 0 /\ t.total_pages = 0
                THEN Raise(w, [t1 EXCEPT !.pdf_writer = Append(@, reader.pages[1]),
                                         !.processed_pages = @ + 1],
                           h1, "ZeroDivisionError", "showerror_process")
                ELSE /\ thread' = [thread EXCEPT ![w] =
                            [t1 EXCEPT !.pdf_writer = @ \o reader.pages,
                                       !.processed_pages = @ + n]]
                     /\ hist' = [hist EXCEPT ![w] = h1]
                     /\ after_queue' = after_queue \o
                            PageCallbacks(w, n, t.processed_pages, t.total_pages,
                                          basename(file_path))
       ELSE /\ thread' = [thread EXCEPT ![w] = [t EXCEPT !.pc = "open"]]
            /\ after_queue' = Append(after_queue,
                                     Cb("status", w, NoP, "Writing merged PDF..."))
            /\ UNCHANGED hist
    /\ UNCHANGED <<fs, dirs>>
    /\ Others

\* Lines 274-283 with the destination opened before any source is read.
W_begin_open_first(w) ==
    LET t == thread[w]
        output_path == output_path_var
        t1 == [t EXCEPT !.output_path = output_path, !.pc = "count"]
    IN  /\ t.pc = "begin"
        /\ output_path \in AllPaths
        /\ dirname(output_path) \in dirs \ ReadOnlyDirs
        /\ thread' = [thread EXCEPT ![w] = t1]
        /\ hist' = [hist EXCEPT ![w].opened = TRUE,
                                ![w].dest_before = fs[output_path]]
        /\ fs' = [fs EXCEPT ![output_path] = Corrupt]
        /\ UNCHANGED <<after_queue, dirs>>
        /\ Others

\* Lines 274-283: the output path is read, its directory made, the writer created.
W_begin(w) ==
    LET t == thread[w]
        output_path == output_path_var
        output_dir == dirname(output_path)
        t1 == [t EXCEPT !.output_path = output_path]
    IN  /\ t.pc = "begin"
        /\ IF output_dir # Empty /\ output_dir \notin dirs
           THEN IF DeepestExisting(output_dir) \in ReadOnlyDirs
                THEN /\ Raise(w, t1, hist[w], "PermissionError", "showerror_outer")
                     /\ UNCHANGED dirs
                ELSE /\ dirs' = dirs \cup Ancestors(output_dir)
                     /\ thread' = [thread EXCEPT ![w] = [t1 EXCEPT !.pc = "count"]]
                     /\ UNCHANGED <<hist, after_queue>>
           ELSE /\ thread' = [thread EXCEPT ![w] = [t1 EXCEPT !.pc = "count"]]
                /\ UNCHANGED <<hist, after_queue, dirs>>
        /\ UNCHANGED fs
        /\ Others

\* Line 319 with mode 'ab': an existing file keeps its content.
W_open_append(w) ==
    LET t == thread[w]
        output_path == t.output_path
    IN  /\ t.pc = "open"
        /\ output_path \in AllPaths
        /\ dirname(output_path) \in dirs \ ReadOnlyDirs
        /\ fs' = [fs EXCEPT ![output_path] = IF @.st = "absent" THEN Corrupt ELSE @]
        /\ thread' = [thread EXCEPT ![w].pc = "write"]
        /\ hist' = [hist EXCEPT ![w].opened = TRUE,
                                ![w].dest_before = fs[output_path]]
        /\ UNCHANGED <<after_queue, dirs>>
        /\ Others

\* Line 319: open(output_path, 'wb') creates the file or truncates it; an
\* empty file is not a readable PDF.
W_open(w) ==
    LET t == thread[w]
        output_path == t.output_path
    IN  /\ t.pc = "open"
        /\ IF output_path = Empty \/ dirname(output_path) \notin dirs
           THEN Raise(w, t, hist[w], "FileNotFoundError", "showerror_outer")
                /\ UNCHANGED fs
           ELSE IF dirname(output_path) \in ReadOnlyDirs
           THEN Raise(w, t, hist[w], "PermissionError", "showerror_outer")
                /\ UNCHANGED fs
           ELSE /\ fs' = [fs EXCEPT ![output_path] = Corrupt]
                /\ thread' = [thread EXCEPT ![w].pc = "write"]
                /\ hist' = [hist EXCEPT ![w].opened = TRUE,
                                        ![w].dest_before = fs[output_path]]
                /\ UNCHANGED after_queue
        /\ UNCHANGED dirs
        /\ Others

\* What the file holds after this thread has written its document from offset
\* 0: its own document, unless another thread has meanwhile written a longer
\* one through its own handle, whose tail then remains.
Written(content, pages) ==
    IF Len(content.pages) > Len(pages) THEN Corrupt ELSE Pdf(pages)

\* Line 320: pdf_writer.write(output_file), which an I/O fault may interrupt.
W_write(w) ==
    LET t == thread[w]
        output_path == t.output_path
    IN  /\ t.pc = "write"
        /\ \/ /\ fs' = [fs EXCEPT ![output_path] = Written(@, t.pdf_writer)]
              /\ thread' = [thread EXCEPT ![w].pc = "success"]
              /\ hist' = [hist EXCEPT ![w].written = TRUE]
              /\ UNCHANGED after_queue
           \/ /\ fs' = [fs EXCEPT ![output_path] = Corrupt]
              /\ Raise(w, t, hist[w], "OSError", "showerror_outer")
        /\ UNCHANGED dirs
        /\ Others

\* The thread ends: its locals go, but for those its lambdas closed over.
Ended(t, outcome) ==
    [NoThread EXCEPT !.pc = "done", !.outcome = outcome,
                     !.output_path = t.output_path, !.file_path = t.file_path]

\* Lines 322-326 and the finally clause, 330-332.
W_success(w) ==
    LET t == thread[w] IN
    /\ t.pc = "success"
    /\ thread' = [thread EXCEPT ![w] = Ended(t, "ok")]
    /\ after_queue' = after_queue \o
           <<Cb("progress", w, Whole(100), ""),
             Cb("status", w, NoP, "PDFs merged successfully!"),
             Cb("showinfo", w, NoP, ""),
             Cb("enable", w, NoP, "")>>
    /\ UNCHANGED <<hist, fs, dirs>>
    /\ Others

\* The end of an except clause with no finally clause after it.
W_except_no_finally(w) ==
    LET t == thread[w] IN
    /\ t.pc = "except"
    /\ thread' = [thread EXCEPT ![w] = Ended(t, "error")]
    /\ UNCHANGED <<after_queue, hist, fs, dirs>>
    /\ Others

\* The end of an except clause, which unbinds e (also on return), and the
\* finally clause, 330-332.
W_except(w) ==
    LET t == thread[w] IN
    /\ t.pc = "except"
    /\ thread' = [thread EXCEPT ![w] = Ended(t, "error")]
    /\ after_queue' = Append(after_queue, Cb("enable", w, NoP, ""))
    /\ UNCHANGED <<hist, fs, dirs>>
    /\ Others

merge_pdfs(w) ==
    \/ W_begin(w)
    \/ W_count(w)
    \/ W_merge(w)
    \/ W_open(w)
    \/ W_write(w)
    \/ W_success(w)
    \/ W_except(w)

\* ------------------------------------------------------------ Tk main loop

\* One callback run on the widgets st. The lambda of an except clause reads
\* file_path and e of its thread when it runs: with e unbound it raises
\* NameError, which Tk reports on stderr, and no message box appears.
RunCallback(st, cb) ==
    LET t == thread[cb.w] IN
    CASE cb.cb = "progress" -> [st EXCEPT !.progress = cb.p]
      [] cb.cb = "status" -> [st EXCEPT !.status = cb.s]
      [] cb.cb = "enable" -> [st EXCEPT !.btn = "normal"]
      [] cb.cb = "showinfo" ->
           [st EXCEPT !.dialogs = @ \cup
               {Box("showinfo", "PDFs merged successfully!", "", "",
                    t.output_path, cb.w)}]
      [] OTHER ->
           IF t.e = "unbound"
           THEN [st EXCEPT !.errors = @ \cup {[w |-> cb.w, exc |-> "NameError"]}]
           ELSE [st EXCEPT !.dialogs = @ \cup
                    {Box("showerror",
                         CASE cb.cb = "showerror_read" -> "Could not read"
                           [] cb.cb = "showerror_process" -> "Error processing"
                           [] OTHER -> "Merge failed",
                         IF cb.cb = "showerror_outer" THEN ""
                         ELSE basename(t.file_path),
                         t.e, Empty, cb.w)}]

RECURSIVE RunAll(_, _)
RunAll(st, q) ==
    IF q = <<>> THEN st ELSE RunAll(RunCallback(st, Head(q)), Tail(q))

\* The main loop's timer event: Tcl runs every handler that is due, in the
\* order they were registered, before it takes the next event.
mainloop ==
    /\ after_queue # <<>>
    /\ LET st == RunAll([progress |-> progress_var, status |-> status_var,
                         btn |-> merge_btn, dialogs |-> dialogs,
                         errors |-> callback_errors], after_queue)
       IN  /\ after_queue' = <<>>
           /\ progress_var' = st.progress
           /\ status_var' = st.status
           /\ merge_btn' = st.btn
           /\ dialogs' = st.dialogs
           /\ callback_errors' = st.errors
    /\ UNCHANGED <<pdf_files, file_listbox, output_path_var, dnd_enabled,
                   fs, dirs, thread, hist, ui_events>>

\* ------------------------------------------------------------ specifications

\* One more user-interface event is handled.
UIEvent ==
    /\ ui_events < MaxUIEvents
    /\ ui_events' = ui_events + 1

Next ==
    \/ UIEvent /\ add_files
    \/ UIEvent /\ drop
    \/ UIEvent /\ remove_file
    \/ UIEvent /\ clear_all
    \/ UIEvent /\ browse_output
    \/ UIEvent /\ output_entry
    \/ start_merge
    \/ \E w \in Workers : merge_pdfs(w)
    \/ mainloop

Spec == Init /\ [][Next]_vars

\* The steps of a run in which start_merge starts at most LiveMerges threads.
NextLive ==
    \/ UIEvent /\ add_files
    \/ UIEvent /\ drop
    \/ UIEvent /\ remove_file
    \/ UIEvent /\ clear_all
    \/ UIEvent /\ browse_output
    \/ UIEvent /\ output_entry
    \/ start_merge /\ \A w \in Workers : w > LiveMerges => thread'[w].pc = "idle"
    \/ \E w \in Workers : merge_pdfs(w)
    \/ mainloop

\* The threads are scheduled and the main loop keeps running.
FairSpec ==
    /\ Init
    /\ [][NextLive]_vars
    /\ WF_vars(mainloop)
    /\ \A w \in Workers : WF_vars(merge_pdfs(w))

\* The handlers that change the list and the output entry, any number of times.
NextUI ==
    \/ add_files /\ UNCHANGED ui_events
    \/ drop /\ UNCHANGED ui_events
    \/ remove_file /\ UNCHANGED ui_events
    \/ clear_all /\ UNCHANGED ui_events
    \/ browse_output /\ UNCHANGED ui_events
    \/ output_entry /\ UNCHANGED ui_events

SpecUI == Init /\ [][NextUI]_vars


\* ------------------------------------------------------------ the claims

RECURSIVE Flatten(_)
Flatten(ss) == IF ss = <<>> THEN <<>> ELSE Head(ss) \o Flatten(Tail(ss))

IsPrefix(s, t) == Len(s) <= Len(t) /\ SubSeq(t, 1, Len(s)) = s

\* The callbacks of merge w that the main loop has not run yet.
Pending(w) == {i \in 1..Len(after_queue) : after_queue[i].w = w}

Running == {w \in Workers : thread[w].pc \notin {"idle", "done"}}

\* The steps whose exception is a source that cannot be read or assembled.
SourceFailures == {"count", "merge"}

CountOver(w) ==
    \/ thread[w].pc \in {"merge", "open", "write", "success"}
    \/ hist[w].failed \in {"merge", "open", "write"}
    \/ thread[w].outcome = "ok"

MergeOver(w) ==
    \/ thread[w].pc \in {"open", "write", "success"}
    \/ hist[w].failed \in {"open", "write"}
    \/ thread[w].outcome = "ok"

\* Merge w works on the request as start_merge saw it: the sources each pass
\* has read are those of that list, in order (a prefix of it while the pass
\* runs, all of it when the pass is over), and the path it writes to is the
\* text of the output entry at that time.
AsRequested(w) ==
    LET t == thread[w]
        h == hist[w]
    IN  /\ IsPrefix(h.count_read, h.req_files)
        /\ IsPrefix(h.merge_read, h.req_files)
        /\ CountOver(w) => h.count_read = h.req_files
        /\ MergeOver(w) => h.merge_read = h.req_files
        /\ t.pc \notin {"idle", "begin"} => t.output_path = h.req_output

\* C1: when a merge has written its document, the sources its merging pass
\* read are the sources of the request, in request order, and the pages
\* written are the pages of those sources, each in its own order, one source
\* after the other.
C1_PagesInRequestOrder ==
    \A w \in Workers :
        thread[w].pc = "success" =>
            /\ hist[w].merge_read = hist[w].req_files
            /\ thread[w].pdf_writer = Flatten(hist[w].merge_pages)

\* C2, as stated, for a merge that nothing disturbed: it succeeds if and only
\* if every source was read and assembled without error.
C2_SucceedsIffSourcesReadable ==
    \A w \in Workers :
        (thread[w].pc = "done" /\ AsRequested(w)) =>
            (thread[w].outcome = "ok" <=> hist[w].failed \notin SourceFailures)

\* C2, amended: a merge succeeds only if no source failed to be read or
\* assembled and nothing failed at the output either; and a merge in which a
\* source failed, in either pass and at any position, has not opened, created
\* or truncated the destination.
C2_SourceFailureLeavesNoOutput ==
    \A w \in Workers :
        /\ thread[w].outcome = "ok" => hist[w].failed = "none" /\ hist[w].written
        /\ hist[w].failed \in SourceFailures =>
               ~hist[w].opened /\ ~hist[w].written

\* A merge that failed on a source in the merging pass, after it had read
\* other sources, has ended.
C2_Witness ==
    \E w \in Workers :
        /\ thread[w].pc = "done"
        /\ hist[w].failed = "merge"
        /\ Len(hist[w].merge_read) >= 2

\* C3, for a merge that nothing disturbed: it does not open its destination
\* for writing while the destination is one of the sources of its request.
C3_DestinationNeverASource ==
    \A w \in Workers :
        (hist[w].opened /\ AsRequested(w)) =>
            thread[w].output_path \notin Range(hist[w].req_files)

\* C4: at most one merge thread is running at any time.
C4_AtMostOneMergeInFlight == Cardinality(Running) <= 1

\* C5: every merge works on the request as start_merge saw it, whatever the
\* operator does to the list and the output entry while it runs.
C5_RequestImmutable == \A w \in Workers : AsRequested(w)

\* C6: once a failed merge has ended and the main loop has run its callbacks,
\* an error box of that merge has been shown.
C6_EveryFailureShown ==
    \A w \in Workers :
        (thread[w].pc = "done" /\ thread[w].outcome = "error" /\ Pending(w) = {}) =>
            \E d \in dialogs : d.w = w /\ d.box = "showerror"

\* The phase of merge w, in the terms of the orchestrator's state machine.
Phase(w) ==
    LET t == thread[w] IN
    IF t.outcome = "error" THEN "Aborted"
    ELSE CASE t.pc = "idle" -> "Idle"
           [] t.pc \in {"begin", "count"} -> "Validating"
           [] t.pc = "merge" -> "Assembling"
           [] t.pc \in {"open", "write"} -> "Writing"
           [] OTHER -> "Done"

Rank(phase) ==
    CASE phase = "Idle" -> 0
      [] phase = "Validating" -> 1
      [] phase = "Assembling" -> 2
      [] phase = "Writing" -> 3
      [] phase = "Done" -> 4
      [] OTHER -> 5

\* C7: every step leaves a merge in its phase, moves it to the next one, or
\* moves it from Validating, Assembling or Writing to Aborted; and an aborted
\* merge reads no further source, appends no page and neither opens nor
\* writes the destination (its record of reads, open and write stays as it is).
C7_PhasesInOrder ==
    [][\A w \in Workers :
          LET r == Rank(Phase(w))
              r2 == Rank(Phase(w))'
          IN  /\ \/ r2 = r
                 \/ r < 4 /\ r2 = r + 1
                 \/ r \in 1..3 /\ r2 = 5
              /\ r = 5 =>
                     /\ hist'[w] = hist[w]
                     /\ Len(thread'[w].pdf_writer) <= Len(thread[w].pdf_writer)]_vars

\* One merge has gone through all phases to Done and another was aborted.
C7_Witness ==
    \E w, v \in Workers :
        /\ thread[w].pc = "done" /\ thread[w].outcome = "ok"
        /\ thread[v].pc = "done" /\ thread[v].outcome = "error"

C9_ListsAligned ==
    /\ Len(file_listbox) = Len(pdf_files)
    /\ \A i \in 1..Len(pdf_files) : file_listbox[i] = basename(pdf_files[i])
    /\ \A i, j \in 1..Len(pdf_files) : pdf_files[i] = pdf_files[j] => i = j

\* Two files of the same name in different directories are listed, after a
\* third one.
C9_Witness ==
    /\ Len(pdf_files) = 3
    /\ file_listbox[2] = file_listbox[3]
    /\ pdf_files[1] = X

\* C10: every merge that was started ends, and the main loop then runs its
\* last callback, which sets the Merge button to normal.
C10_MergeEndsAndReenables ==
    \A w \in Workers :
        (thread[w].pc \notin {"idle", "done"}) ~>
            (thread[w].pc = "done" /\ Pending(w) = {} /\ merge_btn = "normal")

\* A merge that failed in the page-counting pass has ended and the button is
\* normal again.
C10_Witness ==
    \E w \in Workers :
        /\ thread[w].pc = "done"
        /\ hist[w].failed = "count"
        /\ Pending(w) = {}
        /\ merge_btn = "normal"

=============================================================================
